---- MODULE Spec2Model ----
(***************************************************************************)
(* Model of okta_to_clickup_group_sync.py: the one-way reconciliation of   *)
(* Okta group membership into ClickUp team groups.                         *)
(*                                                                         *)
(* Strings are modelled as sequences of character codes (naturals), so     *)
(* that str.startswith / str.endswith and the ordering of names are        *)
(* computed, not assumed.  A Python dict is modelled as a sequence of      *)
(* [key, val] entries in insertion order (the order .items() iterates).    *)
(* list(set(x)) is modelled as the set of x's elements: a duplicate-free   *)
(* list whose order Python leaves unspecified.                             *)
(***************************************************************************)
EXTENDS Naturals, Sequences, FiniteSets

VARIABLES
    oktaDir,        \* Okta: groups in API response order, each [name, emails]
    team,           \* ClickUp: teams[0].members in response order, each [id, email]
    clickup,        \* ClickUp: the team's groups in response order, each [id, name, members]
    DRY_RUN,        \* configuration flag (line 12)
    pc,             \* position of sync_groups: start, groups, loop, done, aborted
    okta_groups,    \* sync_groups' local okta_groups (result of match_users)
    clickup_groups, \* sync_groups' local clickup_groups (result of get_clickup_groups)
    idx,            \* position of the for loop over okta_groups.items()
    logged,         \* the create/update payloads written to the log, in order
    sent,           \* the POST/PUT requests sent, in order, each with its outcome
    run,            \* 1 for the first run of the script, 2 for the second
    how,            \* how the second run was started: "first", "again", "live", "reordered"
    prevLogged,     \* logged of the previous run
    prevSent        \* sent of the previous run

vars == <<oktaDir, team, clickup, DRY_RUN, pc, okta_groups, clickup_groups,
          idx, logged, sent, run, how, prevLogged, prevSent>>

(***************************************************************************)
(* Bound of the model: the Okta groups, their member emails, the users of  *)
(* the team, the ClickUp groups and their members number at most MaxSize   *)
(* together.                                                               *)
(***************************************************************************)
MaxSize == 6

(***************************************************************************)
(* Configuration read from the environment.                                *)
(***************************************************************************)
OKTA_GROUP_PREFIXES == << <<1>> >>
EMAIL_DOMAIN == <<9>>

(***************************************************************************)
(* What the three systems may hold.                                        *)
(***************************************************************************)
OktaNames == { <<1, 2>>, <<1, 1>>, <<2, 1>> }       \* the last lacks the prefix
ClickupNames == { <<1, 2>>, <<1, 1>> }
OktaEmails == { <<1, 9>>, <<1, 8>> }                \* the last is outside the domain
TeamEmails == { <<1, 9>> }
TeamIds == {1, 2}
MemberIds == {1, 3}                                  \* 3 is never a roster id

\* A list of groups is laid out by its shape, the number of entries of each
\* group, and filled from the names and from the entries taken in one row.
RECURSIVE Sum(_)
Sum(l) == IF l = <<>> THEN 0 ELSE Head(l) + Sum(Tail(l))

\* The shapes of the lists of n groups and entries in all.
Shapes(n) == UNION { { l \in [1..g -> 0..(n - g)] : Sum(l) = n - g } : g \in 0..n }

EntriesOf(l, row, i) == SubSeq(row, Sum(SubSeq(l, 1, i - 1)) + 1, Sum(SubSeq(l, 1, i)))

\* Okta lists groups in any order, two of them may bear the same name.
OktaDir(l, names, row) ==
    [i \in DOMAIN l |-> [name |-> names[i], emails |-> EntriesOf(l, row, i)]]

\* The members of a team are distinct users; two may have the same email.
Teams(n) ==
    IF n > Cardinality(TeamIds) THEN {}
    ELSE { t \in [1..n -> [id : TeamIds, email : TeamEmails]] :
             \A i, j \in DOMAIN t : t[i].id = t[j].id => i = j }

\* ClickUp gives each group its own id; two groups may bear the same name.
ClickupGroups(l, names, row) ==
    [i \in DOMAIN l |-> [id |-> 10 + i, name |-> names[i], members |-> EntriesOf(l, row, i)]]

(***************************************************************************)
(* Helpers: Python built-ins.                                              *)
(***************************************************************************)
ToSet(s) == { s[i] : i \in DOMAIN s }

RECURSIVE SetToSeq(_)
SetToSeq(S) ==
    IF S = {} THEN <<>>
    ELSE LET m == CHOOSE x \in S : \A y \in S : x <= y
         IN <<m>> \o SetToSeq(S \ {m})

startswith(s, p) == Len(p) <= Len(s) /\ SubSeq(s, 1, Len(p)) = p
endswith(s, p) == Len(p) <= Len(s) /\ SubSeq(s, Len(s) - Len(p) + 1, Len(s)) = p
startswithAny(s, ps) == \E i \in DOMAIN ps : startswith(s, ps[i])

Keys(d) == { d[i].key : i \in DOMAIN d }
DictGet(d, k) == d[CHOOSE i \in DOMAIN d : d[i].key = k].val
\* DictSet with a new key put first.
DictSet_Front(d, k, v) ==
    IF k \in Keys(d)
    THEN [i \in DOMAIN d |-> IF d[i].key = k THEN [key |-> k, val |-> v] ELSE d[i]]
    ELSE <<[key |-> k, val |-> v]>> \o d
DictSet(d, k, v) ==
    IF k \in Keys(d)
    THEN [i \in DOMAIN d |-> IF d[i].key = k THEN [key |-> k, val |-> v] ELSE d[i]]
    ELSE Append(d, [key |-> k, val |-> v])

(***************************************************************************)
(* get_okta_groups: group name -> emails ending with EMAIL_DOMAIN, for the *)
(* groups whose name starts with one of the prefixes.                      *)
(***************************************************************************)
RECURSIVE VerifiedEmails(_)
VerifiedEmails(data) ==
    IF data = <<>> THEN <<>>
    ELSE (IF endswith(Head(data), EMAIL_DOMAIN) THEN <<Head(data)>> ELSE <<>>)
         \o VerifiedEmails(Tail(data))

RECURSIVE get_okta_groups_from(_, _)
get_okta_groups_from(groups, group_members) ==
    IF groups = <<>> THEN group_members
    ELSE LET g == Head(groups)
         IN IF ~startswithAny(g.name, OKTA_GROUP_PREFIXES)
            THEN get_okta_groups_from(Tail(groups), group_members)
            ELSE get_okta_groups_from(Tail(groups),
                    DictSet(group_members, g.name, VerifiedEmails(g.emails)))

get_okta_groups(dir) == get_okta_groups_from(dir, <<>>)

get_clickup_users(t) == t

(***************************************************************************)
(* get_clickup_groups: group name -> [id, members] for the prefixed groups.*)
(***************************************************************************)
RECURSIVE get_clickup_groups_from(_, _)
get_clickup_groups_from(groups, acc) ==
    IF groups = <<>> THEN acc
    ELSE LET g == Head(groups)
         IN IF startswithAny(g.name, OKTA_GROUP_PREFIXES)
            THEN get_clickup_groups_from(Tail(groups),
                    DictSet(acc, g.name, [id |-> g.id, members |-> g.members]))
            ELSE get_clickup_groups_from(Tail(groups), acc)

get_clickup_groups(data) == get_clickup_groups_from(data, <<>>)

(***************************************************************************)
(* match_users: for each group, for each email, for each roster user with  *)
(* an equal email, append the user's id; a group gets its key on its first *)
(* match.                                                                  *)
(***************************************************************************)
RECURSIVE IdsForEmail(_, _)
IdsForEmail(email, users) ==
    IF users = <<>> THEN <<>>
    ELSE (IF Head(users).email = email THEN <<Head(users).id>> ELSE <<>>)
         \o IdsForEmail(email, Tail(users))

RECURSIVE IdsForEmails(_, _)
IdsForEmails(emails, users) ==
    IF emails = <<>> THEN <<>>
    ELSE IdsForEmail(Head(emails), users) \o IdsForEmails(Tail(emails), users)

HasKey(ids) == ids # <<>>

RECURSIVE match_users_from(_, _, _)
match_users_from(okta, users, group_members) ==
    IF okta = <<>> THEN group_members
    ELSE LET ids == IdsForEmails(Head(okta).val, users)
         IN match_users_from(Tail(okta), users,
                IF HasKey(ids)
                THEN Append(group_members, [key |-> Head(okta).key, val |-> ids])
                ELSE group_members)

match_users(dir, t) == match_users_from(get_okta_groups(dir), get_clickup_users(t), <<>>)

(***************************************************************************)
(* sync_groups: the payloads.                                              *)
(***************************************************************************)
\* CreateIntent without the members.
CreateIntent_NoMembers(okta_group, okta_members) ==
    [op |-> "create", id |-> 0, name |-> okta_group, members |-> <<>>,
     add |-> {}, rem |-> {}]

\* A create has no group id yet: 0 stands for none.
CreateIntent(okta_group, okta_members) ==
    [op |-> "create", id |-> 0, name |-> okta_group, members |-> okta_members,
     add |-> {}, rem |-> {}]

\* AddList and RemList with the difference taken the other way round, or not taken.
AddList_Swapped(okta_members, members) == ToSet(members) \ ToSet(okta_members)
RemList_All(okta_members, members) == ToSet(members)
AddList(okta_members, members) == ToSet(okta_members) \ ToSet(members)
RemList(okta_members, members) == ToSet(members) \ ToSet(okta_members)

UpdateIntent(clickup_group, properties, okta_members) ==
    [op |-> "update", id |-> properties.id, name |-> clickup_group, members |-> <<>>,
     add |-> AddList(okta_members, properties.members),
     rem |-> RemList(okta_members, properties.members)]

\* NeedsUpdate without its test.
NeedsUpdate_Always(add, rem) == TRUE
NeedsUpdate(add, rem) == Cardinality(add) > 0 \/ Cardinality(rem) > 0

\* SendsRequests without its test.
SendsRequests_Always(dry_run) == TRUE
SendsRequests(dry_run) == ~dry_run

\* Lookup without the comparison of names.
Lookup_First(groups, okta_group) == groups[1].val
Lookup(groups, okta_group) == DictGet(groups, okta_group)

(***************************************************************************)
(* The ClickUp side of a successful request.                               *)
(***************************************************************************)
NewGroupId(groups) ==
    IF groups = <<>> THEN 11
    ELSE 1 + (CHOOSE m \in { groups[i].id : i \in DOMAIN groups } :
                 \A i \in DOMAIN groups : groups[i].id <= m)

ApplyRequest(groups, req) ==
    IF req.op = "create"
    THEN Append(groups, [id |-> NewGroupId(groups), name |-> req.name, members |-> req.members])
    ELSE [i \in DOMAIN groups |->
            IF groups[i].id = req.id
            THEN [groups[i] EXCEPT !.members = SetToSeq((ToSet(@) \cup req.add) \ req.rem)]
            ELSE groups[i]]

Outcomes == {"ok", "error", "raise"}

Effects(groups, req, outcome) ==
    IF outcome = "ok" THEN { ApplyRequest(groups, req) }
    ELSE IF outcome = "error" THEN { groups }
    ELSE { groups, ApplyRequest(groups, req) }

(***************************************************************************)
(* Initial state: the script has been loaded, nothing has been fetched.    *)
(***************************************************************************)
Init ==
    /\ \E a \in 0..MaxSize : \E b \in 0..(MaxSize - a) : \E c \in 0..(MaxSize - a - b) :
       \E la \in Shapes(a), lc \in Shapes(c) :
          /\ \E names \in [DOMAIN la -> OktaNames], row \in [1..Sum(la) -> OktaEmails] :
                oktaDir = OktaDir(la, names, row)
          /\ team \in Teams(b)
          /\ \E names \in [DOMAIN lc -> ClickupNames], row \in [1..Sum(lc) -> MemberIds] :
                clickup = ClickupGroups(lc, names, row)
    /\ DRY_RUN \in BOOLEAN
    /\ pc = "start"
    /\ okta_groups = <<>>
    /\ clickup_groups = <<>>
    /\ idx = 1
    /\ logged = <<>>
    /\ sent = <<>>
    /\ run = 1
    /\ how = "first"
    /\ prevLogged = <<>>
    /\ prevSent = <<>>

env == <<oktaDir, team, DRY_RUN>>
hist == <<run, how, prevLogged, prevSent>>

MatchUsers ==
    /\ pc = "start"
    /\ okta_groups' = match_users(oktaDir, team)
    /\ pc' = "groups"
    /\ UNCHANGED <<env, hist, clickup, clickup_groups, idx, logged, sent>>

GetClickupGroups ==
    /\ pc = "groups"
    /\ clickup_groups' = get_clickup_groups(clickup)
    /\ idx' = 1
    /\ pc' = "loop"
    /\ UNCHANGED <<env, hist, clickup, okta_groups, logged, sent>>

\* Log the payload; unless DRY_RUN, send it.  ClickUp applies the request and
\* answers, or answers with an error status, or the call raises: requests.post
\* or requests.put itself, or response.json() in log_response on a body that
\* is not JSON.  What raised may have been applied or not, and ends the run.
Issue(intent) ==
    /\ logged' = Append(logged, intent)
    /\ IF SendsRequests(DRY_RUN)
       THEN \E outcome \in Outcomes :
               /\ sent' = Append(sent, [req |-> intent, outcome |-> outcome])
               /\ clickup' \in Effects(clickup, intent, outcome)
               /\ IF outcome = "raise"
                  THEN pc' = "aborted" /\ idx' = idx
                  ELSE pc' = pc /\ idx' = idx + 1
       ELSE /\ UNCHANGED <<sent, clickup, pc>>
            /\ idx' = idx + 1

InLoop == pc = "loop" /\ idx <= Len(okta_groups)

CreateGroup ==
    /\ InLoop
    /\ okta_groups[idx].key \notin Keys(clickup_groups)
    /\ Issue(CreateIntent(okta_groups[idx].key, okta_groups[idx].val))
    /\ UNCHANGED <<env, hist, okta_groups, clickup_groups>>

UpdateGroup ==
    /\ InLoop
    /\ okta_groups[idx].key \in Keys(clickup_groups)
    /\ LET intent == UpdateIntent(okta_groups[idx].key,
                                  Lookup(clickup_groups, okta_groups[idx].key),
                                  okta_groups[idx].val)
       IN /\ NeedsUpdate(intent.add, intent.rem)
          /\ Issue(intent)
    /\ UNCHANGED <<env, hist, okta_groups, clickup_groups>>

NoChange ==
    /\ InLoop
    /\ okta_groups[idx].key \in Keys(clickup_groups)
    /\ LET intent == UpdateIntent(okta_groups[idx].key,
                                  Lookup(clickup_groups, okta_groups[idx].key),
                                  okta_groups[idx].val)
       IN ~NeedsUpdate(intent.add, intent.rem)
    /\ idx' = idx + 1
    /\ UNCHANGED <<env, hist, clickup, pc, okta_groups, clickup_groups, logged, sent>>

Finish ==
    /\ pc = "loop"
    /\ idx > Len(okta_groups)
    /\ pc' = "done"
    /\ UNCHANGED <<env, hist, clickup, okta_groups, clickup_groups, idx, logged, sent>>

Next == MatchUsers \/ GetClickupGroups \/ CreateGroup \/ UpdateGroup \/ NoChange \/ Finish

Spec == Init /\ [][Next]_vars

(***************************************************************************)
(* The script is run a second time (line 228): on the same directory and   *)
(* the ClickUp state the first run left; with DRY_RUN switched off after a *)
(* dry run; or with one of the three API responses in another order: two   *)
(* of its entries exchanged (any other order is a chain of exchanges, and  *)
(* every list so obtained is itself an initial state).                     *)
(***************************************************************************)
\* The list s with the entries at i and j exchanged.
Swap(s, i, j) == [s EXCEPT ![i] = s[j], ![j] = s[i]]
Swaps(s) == { Swap(s, i, j) : i, j \in DOMAIN s } \ { s }

StartRun(kind) ==
    /\ pc = "done"
    /\ run = 1
    /\ run' = 2
    /\ how' = kind
    /\ prevLogged' = logged
    /\ prevSent' = sent
    /\ pc' = "start"
    /\ okta_groups' = <<>>
    /\ clickup_groups' = <<>>
    /\ idx' = 1
    /\ logged' = <<>>
    /\ sent' = <<>>

RunAgain ==
    /\ StartRun("again")
    /\ UNCHANGED <<env, clickup>>

RunLive ==
    /\ DRY_RUN
    /\ StartRun("live")
    /\ DRY_RUN' = FALSE
    /\ UNCHANGED <<oktaDir, team, clickup>>

RunReordered ==
    /\ DRY_RUN
    /\ StartRun("reordered")
    /\ \/ oktaDir' \in Swaps(oktaDir) /\ UNCHANGED <<team, clickup>>
       \/ team' \in Swaps(team) /\ UNCHANGED <<oktaDir, clickup>>
       \/ clickup' \in Swaps(clickup) /\ UNCHANGED <<oktaDir, team>>
    /\ UNCHANGED DRY_RUN

NextRerun == Next \/ RunAgain \/ RunLive \/ RunReordered

SpecRerun == Init /\ [][NextRerun]_vars

(***************************************************************************)
(* Vocabulary of the properties.                                           *)
(***************************************************************************)
Fetched == pc \in {"loop", "done", "aborted"}
\* The loop has dealt with okta_groups[j]: a request that raised was issued too.
Handled(j) == j < idx \/ (pc = "aborted" /\ j = idx)
CreatesOf(name) == { i \in DOMAIN logged : logged[i].op = "create" /\ logged[i].name = name }
UpdatesOf(name) == { i \in DOMAIN logged : logged[i].op = "update" /\ logged[i].name = name }
Requests(s) == [i \in DOMAIN s |-> s[i].req]
IdsOf(intent) == ToSet(intent.members) \cup intent.add \cup intent.rem
RosterIds == { team[i].id : i \in DOMAIN team }
IsPrefixOf(s, t) == Len(s) <= Len(t) /\ SubSeq(t, 1, Len(s)) = s
Repeats(s) == \E i, j \in DOMAIN s : i # j /\ s[i] = s[j]
\* The emails get_okta_groups returned for a group name.
SourceEmails(name) == DictGet(get_okta_groups(oktaDir), name)
\* The target group of a name in the snapshot taken by get_clickup_groups.
TargetsOf(name) == { k \in DOMAIN clickup_groups : clickup_groups[k].key = name }

(***************************************************************************)
(* C1.  Every group returned by the directory fetch is a key of the        *)
(* mapping match_users returns, with no ids when no email resolves; and    *)
(* when the run is over, a target group of that name with members has been *)
(* sent an update that removes all of them.                                *)
(***************************************************************************)
C1_UnresolvedGroupKept ==
    Fetched =>
        \A name \in Keys(get_okta_groups(oktaDir)) :
            /\ name \in Keys(okta_groups)
            /\ (/\ pc = "done"
                /\ \A e \in ToSet(SourceEmails(name)) : \A u \in DOMAIN team : team[u].email # e)
               => \A k \in TargetsOf(name) :
                     clickup_groups[k].val.members # <<>>
                     => \E i \in UpdatesOf(name) :
                           logged[i].rem = ToSet(clickup_groups[k].val.members)

(***************************************************************************)
(* C3.  For every name of the desired mapping the loop has dealt with:     *)
(* with no target group of that name, exactly one create, carrying the     *)
(* desired ids, and no update; with a target group, no create and at most  *)
(* one update (one exactly when the sets differ), addressed to its id,     *)
(* adding desired minus current and removing current minus desired.  Names *)
(* not yet dealt with have no request.  Unless DRY_RUN, what is logged is  *)
(* what is sent.                                                           *)
(***************************************************************************)
C3_OneCreateOrUpdate ==
    Fetched =>
        /\ \A j \in DOMAIN okta_groups :
              LET name == okta_groups[j].key
                  desired == ToSet(okta_groups[j].val)
              IN IF ~Handled(j)
                 THEN CreatesOf(name) = {} /\ UpdatesOf(name) = {}
                 ELSE IF TargetsOf(name) = {}
                 THEN /\ Cardinality(CreatesOf(name)) = 1
                      /\ \A i \in CreatesOf(name) : ToSet(logged[i].members) = desired
                      /\ UpdatesOf(name) = {}
                 ELSE \A k \in TargetsOf(name) :
                        LET cur == ToSet(clickup_groups[k].val.members)
                        IN /\ CreatesOf(name) = {}
                           /\ Cardinality(UpdatesOf(name)) = (IF desired = cur THEN 0 ELSE 1)
                           /\ \A i \in UpdatesOf(name) :
                                 /\ logged[i].id = clickup_groups[k].val.id
                                 /\ logged[i].add = { x \in desired : x \notin cur }
                                 /\ logged[i].rem = { x \in cur : x \notin desired }
        /\ \A i \in DOMAIN logged : logged[i].name \in Keys(okta_groups)
        /\ ~DRY_RUN => Requests(sent) = logged

C3_Witness ==
    /\ pc = "done"
    /\ \E i \in DOMAIN logged : logged[i].op = "create" /\ logged[i].members # <<>>
    /\ \E i \in DOMAIN logged : logged[i].op = "update" /\ logged[i].add # {}

(***************************************************************************)
(* C4.  A ClickUp group whose name is not in the desired mapping is named  *)
(* by no request, logged or sent, and no step of the run changes it.       *)
(***************************************************************************)
Undesired(i) == clickup[i].name \notin Keys(okta_groups)

C4_NoDeletions ==
    [][ /\ \A i \in DOMAIN clickup :
              Undesired(i) => i \in DOMAIN clickup' /\ clickup'[i] = clickup[i]
        /\ Fetched =>
              \A i \in DOMAIN clickup :
                 Undesired(i) =>
                    /\ \A n \in DOMAIN logged' : logged'[n].id # clickup[i].id
                    /\ \A n \in DOMAIN sent' : sent'[n].req.id # clickup[i].id ]_vars

C4_Witness ==
    /\ pc = "done"
    /\ \E i \in DOMAIN clickup : Undesired(i) /\ clickup[i].members # <<>>
    /\ \E n \in DOMAIN sent : sent[n].req.op = "update" /\ sent[n].outcome = "ok"

(***************************************************************************)
(* C5 as claimed.  Every user id of every create or update (members, add   *)
(* and rem) is the id of a user of the roster.                             *)
(***************************************************************************)
C5_AllIdsFromRoster ==
    \A i \in DOMAIN logged : IdsOf(logged[i]) \subseteq RosterIds

(***************************************************************************)
(* C5 as amended.  The members of a create and the add-list of an update   *)
(* are ids of roster users; the rem-list of an update holds ids of current *)
(* members of the group it addresses, as get_clickup_groups returned them. *)
(***************************************************************************)
C5_IdsFromRosterOrGroup ==
    \A i \in DOMAIN logged :
        /\ ToSet(logged[i].members) \cup logged[i].add \subseteq RosterIds
        /\ logged[i].rem # {} =>
              \E k \in DOMAIN clickup_groups :
                 /\ clickup_groups[k].val.id = logged[i].id
                 /\ logged[i].rem \subseteq ToSet(clickup_groups[k].val.members)

C5_Witness ==
    \E i \in DOMAIN logged :
        /\ logged[i].op = "update"
        /\ logged[i].add # {}
        /\ \E x \in logged[i].rem : x \notin RosterIds

(***************************************************************************)
(* C7.  When a request fails, every remaining group that needs a create or *)
(* an update is still attempted.                                           *)
(***************************************************************************)
NeedsRequest(j) ==
    \/ TargetsOf(okta_groups[j].key) = {}
    \/ \E k \in TargetsOf(okta_groups[j].key) :
          ToSet(clickup_groups[k].val.members) # ToSet(okta_groups[j].val)

C7_RemainingAttempted ==
    (pc \in {"done", "aborted"} /\ ~DRY_RUN) =>
        \A j \in DOMAIN okta_groups :
            NeedsRequest(j) => \E n \in DOMAIN sent : sent[n].req.name = okta_groups[j].key

(***************************************************************************)
(* C8.  The add-list and the rem-list of every update, logged or sent,     *)
(* share no id, and one of them is not empty.                              *)
(***************************************************************************)
C8_Disjoint ==
    /\ \A i \in DOMAIN logged :
          logged[i].op = "update" =>
             /\ logged[i].add \cap logged[i].rem = {}
             /\ logged[i].add \cup logged[i].rem # {}
    /\ \A n \in DOMAIN sent :
          sent[n].req.op = "update" =>
             /\ sent[n].req.add \cap sent[n].req.rem = {}
             /\ sent[n].req.add \cup sent[n].req.rem # {}

\* An update with both lists was issued for a group whose desired ids repeat.
C8_Witness ==
    \E j \in DOMAIN okta_groups :
        /\ Repeats(okta_groups[j].val)
        /\ \E i \in UpdatesOf(okta_groups[j].key) : logged[i].add # {} /\ logged[i].rem # {}

(***************************************************************************)
(* C9.  Each email of a group resolves to the id of the first roster user  *)
(* with that email, and to nothing when there is none: the desired ids of  *)
(* a group are those ids, one per resolved email.                          *)
(***************************************************************************)
FirstMatch(email) ==
    LET hits == { u \in DOMAIN team : team[u].email = email }
    IN IF hits = {} THEN <<>>
       ELSE <<team[CHOOSE u \in hits : \A v \in hits : u <= v].id>>

RECURSIVE ResolveAll(_)
ResolveAll(emails) ==
    IF emails = <<>> THEN <<>> ELSE FirstMatch(Head(emails)) \o ResolveAll(Tail(emails))

C9_FirstMatchOnly ==
    Fetched =>
        \A j \in DOMAIN okta_groups :
            okta_groups[j].val = ResolveAll(SourceEmails(okta_groups[j].key))

(***************************************************************************)
(* C2.  When every request of a first run that sends its requests was      *)
(* applied by ClickUp, a second run on the same directory and roster and   *)
(* on the groups the first run left issues no create and no update.        *)
(***************************************************************************)
AllApplied(s) == \A n \in DOMAIN s : s[n].outcome = "ok"

C2_SecondRunIssuesNothing ==
    (run = 2 /\ how = "again" /\ ~DRY_RUN /\ AllApplied(prevSent)) =>
        logged = <<>> /\ sent = <<>>

C2_Witness ==
    /\ run = 2 /\ how = "again" /\ ~DRY_RUN /\ pc = "done"
    /\ AllApplied(prevSent)
    /\ \E n \in DOMAIN prevSent : prevSent[n].req.op = "create"
    /\ \E n \in DOMAIN prevSent : prevSent[n].req.op = "update"

(***************************************************************************)
(* C6.  With DRY_RUN no request is ever sent; and the requests of a run    *)
(* with DRY_RUN off, on the snapshots of a dry run, are the payloads the   *)
(* dry run logged, in the same order: all of them when the run completes,  *)
(* the first of them when a request raises and ends it.                    *)
(***************************************************************************)
C6_DryRunPurity ==
    /\ DRY_RUN => sent = <<>>
    /\ how = "live" =>
          /\ IsPrefixOf(logged, prevLogged)
          /\ Requests(sent) = logged
          /\ pc = "done" => logged = prevLogged

C6_Witness ==
    /\ how = "live" /\ pc = "done"
    /\ \E n \in DOMAIN sent : sent[n].req.op = "create"
    /\ \E n \in DOMAIN sent : sent[n].req.op = "update"

(***************************************************************************)
(* C10 as claimed.  The requests are issued in ascending order of group    *)
(* name, and a run on the same data in another order issues the same set   *)
(* of requests.                                                            *)
(***************************************************************************)
NameLess(a, b) ==
    \E k \in 1..(Len(a) + 1) :
        /\ \A m \in 1..(k - 1) : m <= Len(b) /\ a[m] = b[m]
        /\ k <= Len(b)
        /\ (k <= Len(a) => a[k] < b[k])

IntentSet(l) == { [l[i] EXCEPT !.members = ToSet(@)] : i \in DOMAIN l }

C10_SortedAndOrderFree ==
    /\ \A i, j \in DOMAIN logged : i < j => NameLess(logged[i].name, logged[j].name)
    /\ (how = "reordered" /\ pc = "done") => IntentSet(logged) = IntentSet(prevLogged)

(***************************************************************************)
(* C10 as amended.  The requests are issued in the order in which the      *)
(* directory listed the group names (each name at its first listing); and  *)
(* when no two directory groups and no two ClickUp groups bear the same    *)
(* name, a run on the same data in another order issues the same set of    *)
(* requests, member lists compared as sets.                                *)
(***************************************************************************)
FirstListing(name) ==
    CHOOSE i \in DOMAIN oktaDir :
        oktaDir[i].name = name /\ \A j \in 1..(i - 1) : oktaDir[j].name # name

UniqueNames(s) == \A i, j \in DOMAIN s : s[i].name = s[j].name => i = j

C10_ListingOrder ==
    /\ \A i \in DOMAIN logged : \E d \in DOMAIN oktaDir : oktaDir[d].name = logged[i].name
    /\ \A i, j \in DOMAIN logged :
          i < j => FirstListing(logged[i].name) < FirstListing(logged[j].name)
    /\ (how = "reordered" /\ pc = "done" /\ UniqueNames(oktaDir) /\ UniqueNames(clickup))
          => IntentSet(logged) = IntentSet(prevLogged)

C10_Witness ==
    /\ how = "reordered" /\ pc = "done"
    /\ UniqueNames(oktaDir) /\ UniqueNames(clickup)
    /\ Len(logged) = 2
    /\ NameLess(logged[2].name, logged[1].name)
    /\ logged[1] = prevLogged[2]
    /\ \E i \in DOMAIN logged : logged[i].op = "update"

====
